---- MODULE Spec2Model ----
(***************************************************************************)
(* Model of examples/generate_sample_report.py: generate_sample_data()     *)
(* builds a fabricated scan report record by record, aggregates the costs  *)
(* and main() writes the document.                                         *)
(*                                                                         *)
(* Randomness.  Every random.* call of the script reads one pseudo-random  *)
(* stream whose seed is the only input of a run.  The model draws the seed *)
(* in Init from 0..MaxSeed and runs a small linear congruential generator; *)
(* randint, choice and sample are computed from the stream as the library  *)
(* computes them (an index into the range or the list).                    *)
(*                                                                         *)
(* Money.  The script's costs are floats in dollars.  The model keeps them *)
(* as integers in hundredths of a cent (1 dollar = 10000); a float         *)
(* division is an integer division that truncates.  Sums are left-to-right *)
(* folds in the order the code adds.                                       *)
(*                                                                         *)
(* Fields of a resource record that no aggregation reads and that are pure *)
(* decoration (id, name, last_used, estimated_monthly_savings, reasons and *)
(* the uuid / timestamp details) are left out of the records.              *)
(***************************************************************************)
EXTENDS Integers, Sequences, FiniteSets, TLC

VARIABLES pc, rng, data, typeIdx, num_resources, i,
          cost_breakdown, total_costs, pos, output_file

vars == <<pc, rng, data, typeIdx, num_resources, i,
          cost_breakdown, total_costs, pos, output_file>>

\* Seeds 0..MaxSeed are the runs explored.
MaxSeed == 63

(***************************************************************************)
(* The random module                                                       *)
(***************************************************************************)
\* One step of the generator.
Step(s) == (75 * s + 74) % 65537

\* The state of the stream k draws after s.
RECURSIVE Draw(_, _)
Draw(s, k) == IF k = 0 THEN s ELSE Step(Draw(s, k - 1))

\* random.randint(lo, hi) from the stream value r: lo <= result <= hi.
randint(lo, hi, r) == lo + (r % (hi - lo + 1))

\* random.choice(seq) from the stream value r.
choice(seq, r) == seq[1 + (r % Len(seq))]

\* seq without its j-th element.
RemoveAt(seq, j) == [n \in 1..(Len(seq) - 1) |-> IF n < j THEN seq[n] ELSE seq[n + 1]]

\* random.sample(pool, k): k distinct elements, each drawn from what is left.
RECURSIVE sample(_, _, _)
sample(pool, k, s) ==
    IF k = 0 THEN <<>>
    ELSE LET j == 1 + (Step(s) % Len(pool))
         IN  <<pool[j]>> \o sample(RemoveAt(pool, j), k - 1, Step(s))

(***************************************************************************)
(* Dictionaries                                                            *)
(***************************************************************************)
EmptyDict == [k \in {} |-> 0]

\* dict.get(key, default)
Get(d, key, default) == IF key \in DOMAIN d THEN d[key] ELSE default

\* a.update(b): the keys of b overwrite those of a.
DictUpdate(a, b) ==
    [k \in (DOMAIN a) \cup (DOMAIN b) |-> IF k \in DOMAIN b THEN b[k] ELSE a[k]]

\* d[key] = value
DictSet(d, key, value) ==
    [k \in (DOMAIN d) \cup {key} |-> IF k = key THEN value ELSE d[k]]

(***************************************************************************)
(* Catalogs                                                                *)
(***************************************************************************)
resource_types ==
    << "EC2 Instance", "RDS Instance", "ELB", "EBS Volume", "EBS Snapshot",
       "DynamoDB Table", "IAM User", "IAM Role", "Elastic IP", "OpenSearch Domain" >>

Periods == << "hourly", "daily", "monthly", "yearly", "lifetime" >>

regions ==
    << "us-east-1", "us-east-2", "us-west-1", "us-west-2",
       "eu-central-1", "eu-west-1", "ap-southeast-1" >>

account_ids == << "123456789012", "234567890123", "345678901234" >>

AccountNames ==
    [a \in {"123456789012", "234567890123", "345678901234"} |->
        CASE a = "123456789012" -> "Production"
          [] a = "234567890123" -> "Staging"
          [] OTHER              -> "Development"]

\* generate_random_regions(): between 3 and 7 distinct regions.
generate_random_regions(s) == sample(regions, randint(3, 7, Step(s)), Step(s))

\* Bounds of the number of resources generated per type.
MinResources == 5
MaxResources == 15

\* Assumed lifetime, in years, named by the comment of calculate_resource_costs.
LifetimeYears == 3

(***************************************************************************)
(* generate_resource_details                                               *)
(***************************************************************************)
generate_resource_details(resource_type, s) ==
    CASE resource_type = "EC2 Instance" ->
           [InstanceType |-> choice(<<"t3.micro", "t3.small", "t3.medium",
                                      "t3.large", "r5.xlarge">>, Draw(s, 1)),
            State        |-> choice(<<"running", "stopped">>, Draw(s, 2))]
      [] resource_type = "RDS Instance" ->
           [DBInstanceClass  |-> choice(<<"db.t3.micro", "db.t3.small",
                                          "db.t3.medium", "db.r5.large">>, Draw(s, 1)),
            Engine           |-> choice(<<"mysql", "postgres", "aurora">>, Draw(s, 2)),
            AllocatedStorage |-> randint(50, 1000, Draw(s, 3)),
            MultiAZ          |-> choice(<<TRUE, FALSE>>, Draw(s, 4))]
      [] resource_type = "EBS Volume" ->
           [Size       |-> randint(8, 100, Draw(s, 1)),
            VolumeType |-> choice(<<"gp2", "gp3", "io1">>, Draw(s, 2)),
            State      |-> "available",
            Iops       |-> randint(100, 3000, Draw(s, 3))]
      [] resource_type = "EBS Snapshot" ->
           [VolumeSize |-> randint(8, 100, Draw(s, 1)),
            State      |-> "completed"]
      [] resource_type = "DynamoDB Table" ->
           [ProvisionedThroughput |->
                [ReadCapacityUnits  |-> randint(1, 3, Draw(s, 1)),
                 WriteCapacityUnits |-> randint(1, 2, Draw(s, 2))],
            TableStatus |-> "ACTIVE",
            ItemCount   |-> randint(0, 1000, Draw(s, 3))]
      [] resource_type = "IAM User" ->
           [Groups |-> randint(0, 3, Draw(s, 1))]
      [] resource_type = "IAM Role" ->
           [AttachedPolicies |-> randint(1, 5, Draw(s, 1))]
      [] resource_type = "Elastic IP" ->
           [Domain |-> "vpc"]
      [] resource_type = "OpenSearch Domain" ->
           [InstanceType  |-> choice(<<"t3.small.search", "t3.medium.search",
                                       "r5.large.search">>, Draw(s, 1)),
            EngineVersion |-> "OpenSearch_1.0"]
      [] OTHER -> EmptyDict

(***************************************************************************)
(* calculate_resource_costs (hundredths of a cent)                         *)
(***************************************************************************)
ZeroCosts == [hourly |-> 0, daily |-> 0, monthly |-> 0, yearly |-> 0, lifetime |-> 0]

\* hourly is set first: daily = hourly * 24, monthly = daily * 30.44
FromHourly(hourly) ==
    LET daily == hourly * 24
    IN  [hourly |-> hourly, daily |-> daily, monthly |-> (daily * 3044) \div 100]

\* monthly is set first: daily = monthly / 30.44, hourly = daily / 24
FromMonthly(monthly) ==
    LET daily == (monthly * 100) \div 3044
    IN  [hourly |-> daily \div 24, daily |-> daily, monthly |-> monthly]

Ec2HourlyRates ==
    [t \in {"t3.micro", "t3.small", "t3.medium", "t3.large",
            "r5.xlarge", "r5.2xlarge", "r5.4xlarge"} |->
        CASE t = "t3.micro"   -> 104
          [] t = "t3.small"   -> 208
          [] t = "t3.medium"  -> 416
          [] t = "t3.large"   -> 832
          [] t = "r5.xlarge"  -> 2520
          [] t = "r5.2xlarge" -> 5040
          [] OTHER            -> 10080]

RdsHourlyRates ==
    [t \in {"db.t3.micro", "db.t3.small", "db.t3.medium", "db.r5.large", "db.r5.xlarge"} |->
        CASE t = "db.t3.micro"  -> 170
          [] t = "db.t3.small"  -> 340
          [] t = "db.t3.medium" -> 680
          [] t = "db.r5.large"  -> 2900
          [] OTHER              -> 5800]

OpenSearchHourlyRates ==
    [t \in {"t3.small.search", "t3.medium.search", "r5.large.search"} |->
        CASE t = "t3.small.search"  -> 360
          [] t = "t3.medium.search" -> 730
          [] OTHER                  -> 1860]

\* The hourly, daily and monthly costs of a resource (lines 272-349).
BaseCosts(resource_type, details) ==
    CASE resource_type = "EC2 Instance" ->
           FromHourly(Get(Ec2HourlyRates, Get(details, "InstanceType", "t3.micro"), 416) \div 2)
      [] resource_type = "RDS Instance" ->
           FromHourly(Get(RdsHourlyRates, Get(details, "DBInstanceClass", "db.t3.medium"), 680) \div 3)
      [] resource_type = "EBS Volume" ->
           FromMonthly(Get(details, "Size", 20)
                       * (IF Get(details, "VolumeType", "gp3") = "gp2" THEN 1000 ELSE 800))
      [] resource_type = "EBS Snapshot" ->
           FromMonthly(Get(details, "VolumeSize", 20) * 500)
      [] resource_type = "Elastic IP" ->
           FromHourly(50)
      [] resource_type = "DynamoDB Table" ->
           LET pt == Get(details, "ProvisionedThroughput", EmptyDict)
           IN  FromHourly((Get(pt, "ReadCapacityUnits", 5) * 13
                           + Get(pt, "WriteCapacityUnits", 5) * 65) \div 10)
      [] resource_type = "ELB" ->
           FromHourly(225)
      [] resource_type = "OpenSearch Domain" ->
           FromHourly(Get(OpenSearchHourlyRates,
                          Get(details, "InstanceType", "t3.small.search"), 360) \div 2)
      [] OTHER -> [hourly |-> 0, daily |-> 0, monthly |-> 0]

\* The factor the yearly cost is multiplied by: random.randint(-1, 3) (line 353).
LifetimeFactor(r) == randint(-1, 3, r)

\* calculate_resource_costs(resource_type, details); r is the stream value
\* its one random draw reads.
calculate_resource_costs(resource_type, details, r) ==
    LET base   == BaseCosts(resource_type, details)
        yearly == base.monthly * 12
    IN  [hourly   |-> base.hourly,
         daily    |-> base.daily,
         monthly  |-> base.monthly,
         yearly   |-> yearly,
         lifetime |-> yearly * LifetimeFactor(r)]

(***************************************************************************)
(* calculate_scan_metrics                                                  *)
(***************************************************************************)
total_run_time_seconds == 60
max_workers == 10

\* total_scans = int(tasks_per_second * total_run_time_seconds) (line 237);
\* tasks_per_second is kept in thousandths (5.0 .. 8.0 is 5000 .. 8000).
TotalScans(tasks_per_second) == (tasks_per_second * total_run_time_seconds) \div 1000

\* CompletedScans with the failed scans added where the code subtracts them.
CompletedScansAdded(total_scans, failed_scans) == total_scans + failed_scans

\* completed_scans = total_scans - failed_scans (line 241).
CompletedScans(total_scans, failed_scans) == total_scans - failed_scans

\* TotalCostDraw with a digit too many in the upper end of the range.
TotalCostDrawWide(r) == randint(5000, 150000, r) * 10000

\* random.uniform(5000, 15000) (line 250), in whole dollars, as hundredths of a cent.
TotalCostDraw(r) == randint(5000, 15000, r) * 10000

\* The dict calculate_scan_metrics returns (lines 246-260) for the values its
\* random calls drew.
ScanMetricsFrom(total_resources, peak_workers, tasks_per_second, failed_scans, total_cost) ==
    LET total_scans == TotalScans(tasks_per_second)
    IN  [CompletedAt        |-> "now+365d",
         TotalResources     |-> total_resources,
         ResourcesByType    |-> EmptyDict,
         TotalCost          |-> total_cost,
         TotalScans         |-> total_scans,
         CompletedScans     |-> CompletedScans(total_scans, failed_scans),
         FailedScans        |-> failed_scans,
         TasksPerSecond     |-> tasks_per_second,
         AvgExecutionTimeMs |-> (total_run_time_seconds * 1000) \div total_scans,
         WorkerUtilization  |-> (peak_workers * 100) \div max_workers,
         PeakWorkers        |-> peak_workers,
         MaxWorkers         |-> max_workers,
         TotalRunTime       |-> "1m0s"]

\* calculate_scan_metrics(total_resources); s is the stream state on entry.
calculate_scan_metrics(total_resources, s) ==
    ScanMetricsFrom(total_resources,
                    randint(7, max_workers, Draw(s, 1)),
                    randint(5000, 8000, Draw(s, 2)),
                    randint(1, 3, Draw(s, 3)),
                    TotalCostDraw(Draw(s, 4)))

(***************************************************************************)
(* generate_sample_data: its steps as operators                            *)
(***************************************************************************)
\* The document as first built (lines 360-377).
InitialData(s) ==
    [ScanMetrics        |-> [CompletedAt     |-> "now+365d",
                             TotalResources  |-> 0,
                             ResourcesByType |-> EmptyDict],
     AccountsAndRegions |-> [a \in {"123456789012", "234567890123", "345678901234"} |->
                                CASE a = "123456789012" -> generate_random_regions(s)
                                  [] a = "234567890123" -> generate_random_regions(Draw(s, 8))
                                  [] OTHER              -> generate_random_regions(Draw(s, 16))],
     AccountNames       |-> AccountNames,
     UnusedResources    |-> <<>>]

\* NumResources with the upper end of the range off by one.
NumResourcesOffByOne(r) == randint(MinResources, MaxResources + 1, r)

\* num_resources = random.randint(5, 15) (line 396).
NumResources(r) == randint(MinResources, MaxResources, r)

\* The record built for one resource (lines 399-415); s is the stream state
\* on entry, and the record reads the draws 1..7 after it.
MakeResource(resource_type, d, s) ==
    LET account_id == choice(account_ids, Draw(s, 1))
        region     == choice(d.AccountsAndRegions[account_id], Draw(s, 2))
        details    == generate_resource_details(resource_type, Draw(s, 2))
    IN  [type         |-> resource_type,
         account_id   |-> account_id,
         account_name |-> d.AccountNames[account_id],
         region       |-> region,
         details      |-> details,
         costs        |-> calculate_resource_costs(resource_type, details, Draw(s, 7))]

\* Update resource count by type (lines 420-422).
CountResource(by_type, resource_type) ==
    DictSet(by_type, resource_type, Get(by_type, resource_type, 0) + 1)

\* The document with one more resource appended and counted (lines 417-422).
AppendResource(d, resource) ==
    [d EXCEPT !.UnusedResources = Append(@, resource),
              !.ScanMetrics = [@ EXCEPT !.ResourcesByType =
                                  CountResource(@, resource.type)]]

\* data["ScanMetrics"]["TotalResources"] = len(data["UnusedResources"]) (line 425).
SetTotalResources(d) ==
    [d EXCEPT !.ScanMetrics = [@ EXCEPT !.TotalResources = Len(d.UnusedResources)]]

\* UpdateScanMetrics handing calculate_scan_metrics the number of types counted
\* instead of the number of resources.
UpdateScanMetricsWithTypeCount(d, s) ==
    [d EXCEPT !.ScanMetrics =
        DictUpdate(@, calculate_scan_metrics(Cardinality(DOMAIN @.ResourcesByType), s))]

\* data["ScanMetrics"].update(calculate_scan_metrics(...)) (lines 428-429).
UpdateScanMetrics(d, s) ==
    [d EXCEPT !.ScanMetrics =
        DictUpdate(@, calculate_scan_metrics(d.ScanMetrics.TotalResources, s))]

\* cost_breakdown is a dict in insertion order: its keys in the order they were
\* first set, and the entry of each key.
EmptyBreakdown == [keys |-> <<>>, vals |-> EmptyDict]

InKeys(cb, key) == \E n \in 1..Len(cb.keys) : cb.keys[n] = key

\* A new, all-zero entry for a type not seen yet (lines 444-452).
EnsureEntry(cb, resource_type) ==
    IF InKeys(cb, resource_type) THEN cb
    ELSE [keys |-> Append(cb.keys, resource_type),
          vals |-> DictSet(cb.vals, resource_type,
                           [type |-> resource_type, hourly |-> 0, daily |-> 0,
                            monthly |-> 0, yearly |-> 0, lifetime |-> 0])]

\* AddToBreakdown with the lifetime cost assigned (=) where the code adds (+=).
AddToBreakdownAssignLifetime(cb, resource) ==
    LET cb1 == EnsureEntry(cb, resource.type)
        e   == cb1.vals[resource.type]
    IN  [cb1 EXCEPT !.vals = DictSet(@, resource.type,
            [type     |-> e.type,
             hourly   |-> e.hourly   + resource.costs.hourly,
             daily    |-> e.daily    + resource.costs.daily,
             monthly  |-> e.monthly  + resource.costs.monthly,
             yearly   |-> e.yearly   + resource.costs.yearly,
             lifetime |-> resource.costs.lifetime])]

\* cost_breakdown[resource_type][period] += cost, for every period (lines 455-457).
AddToBreakdown(cb, resource) ==
    LET cb1 == EnsureEntry(cb, resource.type)
        e   == cb1.vals[resource.type]
    IN  [cb1 EXCEPT !.vals = DictSet(@, resource.type,
            [type     |-> e.type,
             hourly   |-> e.hourly   + resource.costs.hourly,
             daily    |-> e.daily    + resource.costs.daily,
             monthly  |-> e.monthly  + resource.costs.monthly,
             yearly   |-> e.yearly   + resource.costs.yearly,
             lifetime |-> e.lifetime + resource.costs.lifetime])]

\* AddToTotals with the yearly cost added to the lifetime total.
AddToTotalsYearlyAsLifetime(tc, costs) ==
    [hourly   |-> tc.hourly   + costs.hourly,
     daily    |-> tc.daily    + costs.daily,
     monthly  |-> tc.monthly  + costs.monthly,
     yearly   |-> tc.yearly   + costs.yearly,
     lifetime |-> tc.lifetime + costs.yearly]

\* total_costs[period] += cost, for every period (lines 455-458).
AddToTotals(tc, costs) ==
    [hourly   |-> tc.hourly   + costs.hourly,
     daily    |-> tc.daily    + costs.daily,
     monthly  |-> tc.monthly  + costs.monthly,
     yearly   |-> tc.yearly   + costs.yearly,
     lifetime |-> tc.lifetime + costs.lifetime]

\* list(cost_breakdown.values()) (line 461).
BreakdownValues(cb) == [n \in 1..Len(cb.keys) |-> cb.vals[cb.keys[n]]]

\* FinalDocument without the line that stores TotalCosts.
FinalDocumentWithoutTotals(d, cb, tc) ==
    DictUpdate(d, [CostBreakdown |-> BreakdownValues(cb)])

\* The document returned (lines 461-464).
FinalDocument(d, cb, tc) ==
    DictUpdate(d, [CostBreakdown |-> BreakdownValues(cb), TotalCosts |-> tc])

(***************************************************************************)
(* The program                                                             *)
(***************************************************************************)
Init ==
    /\ pc = "init"
    /\ rng \in 0..MaxSeed
    /\ data = EmptyDict
    /\ typeIdx = 1
    /\ num_resources = 0
    /\ i = 0
    /\ cost_breakdown = EmptyBreakdown
    /\ total_costs = ZeroCosts
    /\ pos = 1
    /\ output_file = EmptyDict

\* Lines 360-377: the document is initialised.
InitData ==
    /\ pc = "init"
    /\ data' = InitialData(rng)
    /\ rng' = Draw(rng, 24)
    /\ pc' = "types"
    /\ UNCHANGED <<typeIdx, num_resources, i, cost_breakdown, total_costs, pos, output_file>>

\* Lines 394-396: the outer loop takes the next type and draws its count.
NextType ==
    /\ pc = "types"
    /\ typeIdx <= Len(resource_types)
    /\ num_resources' = NumResources(Step(rng))
    /\ rng' = Step(rng)
    /\ i' = 0
    /\ pc' = "resources"
    /\ UNCHANGED <<data, typeIdx, cost_breakdown, total_costs, pos, output_file>>

\* Lines 398-422: one iteration of the inner loop.
GenerateResource ==
    /\ pc = "resources"
    /\ i < num_resources
    /\ data' = AppendResource(data, MakeResource(resource_types[typeIdx], data, rng))
    /\ rng' = Draw(rng, 7)
    /\ i' = i + 1
    /\ UNCHANGED <<pc, typeIdx, num_resources, cost_breakdown, total_costs, pos, output_file>>

\* Line 398: the inner loop is exhausted.
EndType ==
    /\ pc = "resources"
    /\ i >= num_resources
    /\ typeIdx' = typeIdx + 1
    /\ pc' = "types"
    /\ UNCHANGED <<rng, data, num_resources, i, cost_breakdown, total_costs, pos, output_file>>

\* Lines 424-439: the outer loop is exhausted; the total is set, the scan
\* metrics are merged in and the accumulators of the cost pass are zeroed.
ScanMetrics ==
    /\ pc = "types"
    /\ typeIdx > Len(resource_types)
    /\ data' = UpdateScanMetrics(SetTotalResources(data), rng)
    /\ rng' = Draw(rng, 4)
    /\ cost_breakdown' = EmptyBreakdown
    /\ total_costs' = ZeroCosts
    /\ pos' = 1
    /\ pc' = "costs"
    /\ UNCHANGED <<typeIdx, num_resources, i, output_file>>

\* Lines 442-458: one iteration of the cost pass.
GroupCosts ==
    /\ pc = "costs"
    /\ pos <= Len(data.UnusedResources)
    /\ cost_breakdown' = AddToBreakdown(cost_breakdown, data.UnusedResources[pos])
    /\ total_costs' = AddToTotals(total_costs, data.UnusedResources[pos].costs)
    /\ pos' = pos + 1
    /\ UNCHANGED <<pc, rng, data, typeIdx, num_resources, i, output_file>>

\* Lines 460-464: the breakdown and the totals are stored and the document returned.
ReturnData ==
    /\ pc = "costs"
    /\ pos > Len(data.UnusedResources)
    /\ data' = FinalDocument(data, cost_breakdown, total_costs)
    /\ pc' = "returned"
    /\ UNCHANGED <<rng, typeIdx, num_resources, i, cost_breakdown, total_costs, pos, output_file>>

\* main (lines 470-477): the returned document is written to the output file.
WriteFile ==
    /\ pc = "returned"
    /\ output_file' = data
    /\ pc' = "written"
    /\ UNCHANGED <<rng, data, typeIdx, num_resources, i, cost_breakdown, total_costs, pos>>

Next ==
    \/ InitData
    \/ NextType
    \/ GenerateResource
    \/ EndType
    \/ ScanMetrics
    \/ GroupCosts
    \/ ReturnData
    \/ WriteFile

Spec == Init /\ [][Next]_vars

(***************************************************************************)
(* calculate_scan_metrics on its own: every outcome of its random draws    *)
(***************************************************************************)
InitMetrics ==
    /\ pc = "call"
    /\ rng = 0
    /\ data = EmptyDict
    /\ typeIdx = 1
    /\ num_resources = 0
    /\ i = 0
    /\ cost_breakdown = EmptyBreakdown
    /\ total_costs = ZeroCosts
    /\ pos = 1
    /\ output_file = EmptyDict

\* One call of calculate_scan_metrics (lines 225-260); the result is kept in
\* data.ScanMetrics.  The draws range over all of peak_workers and
\* failed_scans, over tasks_per_second in thousandths, and over the two ends
\* of TotalCost.
CallScanMetrics ==
    /\ pc = "call"
    /\ \E total_resources \in {MinResources * Len(resource_types),
                               MaxResources * Len(resource_types)},
          peak_workers \in 7..max_workers,
          tasks_per_second \in 5000..8000,
          failed_scans \in 1..3,
          total_cost \in {TotalCostDraw(0), TotalCostDraw(10000)} :
            data' = [ScanMetrics |-> ScanMetricsFrom(total_resources, peak_workers,
                                        tasks_per_second, failed_scans, total_cost)]
    /\ pc' = "called"
    /\ UNCHANGED <<rng, typeIdx, num_resources, i, cost_breakdown, total_costs, pos, output_file>>

NextMetrics == CallScanMetrics

SpecMetrics == InitMetrics /\ [][NextMetrics]_vars

(***************************************************************************)
(* Properties                                                              *)
(***************************************************************************)
\* generate_sample_data has returned its document.
Returned == pc \in {"returned", "written"}

\* The scan metrics have been merged into the document.
Merged == pc \in {"costs", "returned", "written"}

TopLevelKeys ==
    {"ScanMetrics", "AccountsAndRegions", "AccountNames",
     "UnusedResources", "CostBreakdown", "TotalCosts"}

IsList(x) == DOMAIN x = 1..Len(x)

WellFormed(doc) ==
    /\ TopLevelKeys \subseteq DOMAIN doc
    /\ IsList(doc.UnusedResources)
    /\ IsList(doc.CostBreakdown)

\* The set of types that occur in a list of resources.
TypesIn(res) == {res[n].type : n \in 1..Len(res)}

\* The number of resources of type t.
CountOfType(res, t) == Cardinality({n \in 1..Len(res) : res[n].type = t})

\* The sum of costs[period] over those of the resources lo..hi whose type is in
\* types.  Integer addition is associative, so the halving gives the sum the
\* code accumulates from left to right.
RECURSIVE SumCosts(_, _, _, _, _)
SumCosts(res, lo, hi, period, types) ==
    IF lo > hi THEN 0
    ELSE IF lo = hi
         THEN (IF res[lo].type \in types THEN res[lo].costs[period] ELSE 0)
         ELSE LET mid == (lo + hi) \div 2
              IN  SumCosts(res, lo, mid, period, types)
                  + SumCosts(res, mid + 1, hi, period, types)

SumOfType(res, t, period) == SumCosts(res, 1, Len(res), period, {t})

SumOfAll(res, period) == SumCosts(res, 1, Len(res), period, TypesIn(res))

PeriodSet == {Periods[n] : n \in 1..Len(Periods)}

\* The position of a type in the catalog.
CatalogIndex(t) == CHOOSE n \in 1..Len(resource_types) : resource_types[n] = t

\* C1: the document returned by generate_sample_data, and the one main
\* writes, holds all six top-level keys, with UnusedResources and
\* CostBreakdown being lists.
C1_TopLevelKeys ==
    /\ Returned => WellFormed(data)
    /\ pc = "written" => WellFormed(output_file)

C1_Witness ==
    /\ pc = "written"
    /\ WellFormed(output_file)
    /\ Len(output_file.UnusedResources) > 0
    /\ Len(output_file.CostBreakdown) > 0

\* C2: once the scan metrics are merged in, and in the returned document,
\* ScanMetrics.TotalResources is the number of records of UnusedResources.
C2_TotalResources ==
    Merged => data.ScanMetrics.TotalResources = Len(data.UnusedResources)

C2_Witness ==
    /\ pc = "returned"
    /\ "TotalScans" \in DOMAIN data.ScanMetrics
    /\ Len(data.UnusedResources) > 0
    /\ data.ScanMetrics.TotalResources = Len(data.UnusedResources)

\* C3: in the returned document CostBreakdown holds exactly one entry per
\* type that occurs in UnusedResources, and for every period the entry holds
\* the sum of costs[period] over exactly the records of its type.
C3_CostBreakdown ==
    Returned =>
        LET res == data.UnusedResources
            cbl == data.CostBreakdown
        IN  /\ {cbl[m].type : m \in 1..Len(cbl)} = TypesIn(res)
            /\ \A m1, m2 \in 1..Len(cbl) : cbl[m1].type = cbl[m2].type => m1 = m2
            /\ \A m \in 1..Len(cbl) : \A p \in PeriodSet :
                   cbl[m][p] = SumOfType(res, cbl[m].type, p)

C3_Witness ==
    /\ pc = "returned"
    /\ \E m \in 1..Len(data.CostBreakdown) :
          /\ CountOfType(data.UnusedResources, data.CostBreakdown[m].type) > 1
          /\ data.CostBreakdown[m].monthly > 0
          /\ data.CostBreakdown[m].monthly
                = SumOfType(data.UnusedResources, data.CostBreakdown[m].type, "monthly")
          /\ data.CostBreakdown[m].monthly < SumOfAll(data.UnusedResources, "monthly")

\* C4: in the returned document TotalCosts[period] is the sum of
\* costs[period] over all records of UnusedResources, for every period.
C4_TotalCosts ==
    Returned =>
        \A p \in PeriodSet : data.TotalCosts[p] = SumOfAll(data.UnusedResources, p)

C4_Witness ==
    /\ pc = "returned"
    /\ data.TotalCosts.yearly > 0
    /\ data.TotalCosts.yearly /= data.TotalCosts.lifetime
    /\ \A p \in PeriodSet : data.TotalCosts[p] = SumOfAll(data.UnusedResources, p)

\* C5: in the returned document ScanMetrics.ResourcesByType maps each type to
\* the number of records of that type in UnusedResources, so that its values
\* sum to TotalResources: the counts survive the merge of the scan metrics.
C5_ResourcesByType ==
    Returned =>
        LET res == data.UnusedResources
            by_type == data.ScanMetrics.ResourcesByType
        IN  /\ DOMAIN by_type = TypesIn(res)
            /\ \A t \in DOMAIN by_type : by_type[t] = CountOfType(res, t)

\* C6: every resource costs three years of its yearly cost over its lifetime:
\* costs.lifetime = 3 * costs.yearly, so it is never negative, and never zero
\* when the yearly cost is positive.
C6_LifetimeIsThreeYears ==
    \A n \in 1..Len(Get(data, "UnusedResources", <<>>)) :
        LET costs == data.UnusedResources[n].costs
        IN  /\ costs.lifetime = LifetimeYears * costs.yearly
            /\ costs.lifetime >= 0
            /\ costs.yearly > 0 => costs.lifetime /= 0

\* C7: every one of the 10 catalog types occurs at least 5 and at most 15
\* times in the returned UnusedResources, TotalResources is between 50 and
\* 150, and the records are grouped by type in catalog order.
C7_ResourceCounts ==
    Returned =>
        LET res == data.UnusedResources
        IN  /\ Len(resource_types) = 10
            /\ \A k \in 1..Len(resource_types) :
                   /\ CountOfType(res, resource_types[k]) >= 5
                   /\ CountOfType(res, resource_types[k]) <= 15
            /\ TypesIn(res) = {resource_types[k] : k \in 1..Len(resource_types)}
            /\ data.ScanMetrics.TotalResources >= 50
            /\ data.ScanMetrics.TotalResources <= 150
            /\ \A n \in 1..(Len(res) - 1) :
                   CatalogIndex(res[n].type) <= CatalogIndex(res[n + 1].type)

C7_Witness ==
    /\ pc = "returned"
    /\ \E t \in TypesIn(data.UnusedResources) : CountOfType(data.UnusedResources, t) = 5
    /\ \E t \in TypesIn(data.UnusedResources) : CountOfType(data.UnusedResources, t) = 15
    /\ Len(data.UnusedResources) >= 50

\* C8: every result of calculate_scan_metrics has CompletedScans + FailedScans
\* = TotalScans, FailedScans in 1..3, TotalScans = floor(TasksPerSecond * 60)
\* with TasksPerSecond in 5..8, hence TotalScans in 300..480 and never 0, and
\* CompletedScans positive.
C8_ScanCounts ==
    "ScanMetrics" \in DOMAIN data /\ "TotalScans" \in DOMAIN data.ScanMetrics =>
        LET m == data.ScanMetrics
        IN  /\ m.CompletedScans + m.FailedScans = m.TotalScans
            /\ m.FailedScans >= 1 /\ m.FailedScans <= 3
            /\ m.TasksPerSecond >= 5 * 1000 /\ m.TasksPerSecond <= 8 * 1000
            /\ m.TotalScans * 1000 <= m.TasksPerSecond * 60
            /\ m.TasksPerSecond * 60 < (m.TotalScans + 1) * 1000
            /\ m.TotalScans >= 300 /\ m.TotalScans <= 480
            /\ m.TotalScans /= 0
            /\ m.CompletedScans > 0

C8_Witness ==
    /\ pc = "called"
    /\ data.ScanMetrics.TotalScans = 480
    /\ data.ScanMetrics.FailedScans = 3
    /\ data.ScanMetrics.CompletedScans = 477

\* C9 as claimed: in the returned document ScanMetrics.TotalCost equals
\* TotalCosts[period] for one of the cost periods.
C9_TotalCostConsistent ==
    Returned => \E p \in PeriodSet : data.ScanMetrics.TotalCost = data.TotalCosts[p]

\* C9 as amended: ScanMetrics.TotalCost is the number calculate_scan_metrics
\* draws between 5000 and 15000 dollars, whatever the resources cost.
C9_TotalCostRange ==
    Merged =>
        /\ data.ScanMetrics.TotalCost >= 5000 * 10000
        /\ data.ScanMetrics.TotalCost <= 15000 * 10000

C9_Witness ==
    /\ pc = "returned"
    /\ data.ScanMetrics.TotalCost >= 5000 * 10000
    /\ data.ScanMetrics.TotalCost <= 15000 * 10000
    /\ \A p \in PeriodSet : data.ScanMetrics.TotalCost /= data.TotalCosts[p]

====
